---------------------------- MODULE Spec2Model ----------------------------
(***************************************************************************)
(* Model of calculate_rolling_sharpe_hsi_FRED.py: the FRED rate fetch, the *)
(* rolling Sharpe computation over a downloaded price frame, and the main  *)
(* flow (compute, display, plot).                                          *)
(*                                                                         *)
(* Representation of numbers.  Floating-point values are modelled by exact *)
(* arithmetic on small integers:                                           *)
(*   - a price is [k, v]: k = "fin" with v a positive integer, or "nan"    *)
(*     (missing) or "inf" (non-finite);                                    *)
(*   - a daily return price[i]/price[i-1] - 1 is [k, n, d]: k = "fin" with *)
(*     the ratio n/d kept as a pair (the return is n/d - 1), or "nan" or   *)
(*     "inf";                                                              *)
(*   - an annual rate is an integer number of basis points (0.02 = 200);   *)
(*   - rolling mean, rolling std and Sharpe are kept by class: the mean is *)
(*     "nan" or "fin"; the std is "nan", "zero" or "pos"; the Sharpe ratio *)
(*     is "nan", "neginf", "posinf" or "fin".  These classes are what the  *)
(*     notna() filter and the output length depend on.                     *)
(* Rounding is not modelled: a window of equal returns has std exactly 0.  *)
(***************************************************************************)
EXTENDS Integers, Sequences, FiniteSets

VARIABLES
    pc,           \* position in the flow
    runs,         \* number of calls of calculate_rolling_sharpe in this session
    pad_fill,     \* the installed pandas: pct_change pads missing prices or not
    window_days,  \* argument of calculate_rolling_sharpe
    api_key,      \* argument of calculate_rolling_sharpe: TRUE when a key is given
    response,     \* what the FRED request produced (while the rate is resolved)
    fetched,      \* outcome of fetch_t_bill_yield(api_key) if api_key else None
    annual_rf,    \* local of calculate_rolling_sharpe
    data,         \* the downloaded frame with the computed columns
    result,       \* outcome of calculate_rolling_sharpe
    display,      \* outcome of display_results
    calls         \* the calls completed so far: inputs seen and outcome

vars == << pc, runs, pad_fill, window_days, api_key, response, fetched,
           annual_rf, data, result, display, calls >>

----------------------------------------------------------------------------
(* Bounds of the model *)

MaxLen == 4        \* longest enumerated price frame
MaxWindow == 3     \* largest window_days
MaxObs == 2        \* longest list of FRED observations
TwoMaxLen == 3     \* longest price frame in a session of two calls

(* Program constants *)

FallbackRate == 200    \* annual_rf = 0.02, in basis points
TailRows == 10         \* .tail(10)

----------------------------------------------------------------------------
(* Values *)

Fin(v) == [k |-> "fin", v |-> v]
NaN == [k |-> "nan", v |-> 0]
Inf == [k |-> "inf", v |-> 0]

None == [k |-> "return", ok |-> FALSE, val |-> 0]
Some(x) == [k |-> "return", ok |-> TRUE, val |-> x]
Raised == [k |-> "raise", ok |-> FALSE, val |-> 0]

Max(a, b) == IF a >= b THEN a ELSE b

----------------------------------------------------------------------------
(* The FRED service: fetch_t_bill_yield *)

Dot == [k |-> "dot", v |-> 0]          \* value '.'
Bad == [k |-> "bad", v |-> 0]          \* a value float() rejects
Num(p) == [k |-> "num", v |-> p]       \* value "p" (a percentage)

ObsValues == {Dot, Bad, Num(0), Num(5)}

ObsLists == UNION {[1..n -> ObsValues] : n \in 0..MaxObs}

NoResponse == [k |-> "none", status |-> 0, obs |-> << >>]

Responses ==
    {[k |-> "neterr", status |-> 0, obs |-> << >>],     \* requests.get raises
     [k |-> "status", status |-> 500, obs |-> << >>],   \* a non-200 answer
     [k |-> "nojson", status |-> 200, obs |-> << >>],   \* response.json() raises
     [k |-> "nokey", status |-> 200, obs |-> << >>]}    \* no 'observations' key
    \cup {[k |-> "obs", status |-> 200, obs |-> o] : o \in ObsLists}

SmallResponses ==
    {[k |-> "neterr", status |-> 0, obs |-> << >>],
     [k |-> "obs", status |-> 200, obs |-> << Num(0) >>],
     [k |-> "obs", status |-> 200, obs |-> << Num(5), Dot >>]}

\* next((obs for obs in reversed(observations) if obs['value'] != '.'), None):
\* the index of the first hit scanning from the end, 0 for None
RECURSIVE LatestFrom(_, _)
LatestFrom(obs, i) ==
    IF i = 0 THEN 0
    ELSE IF obs[i] # Dot THEN i
    ELSE LatestFrom(obs, i - 1)

\* variant: the first hit scanning from the front
EarliestNonEmpty(obs) ==
    IF \E i \in 1..Len(obs) : obs[i] # Dot
    THEN CHOOSE i \in 1..Len(obs) :
             obs[i] # Dot /\ \A j \in 1..(i - 1) : obs[j] = Dot
    ELSE 0

Latest(obs) == LatestFrom(obs, Len(obs))

\* variant of FetchBody: the scan is not reversed
FetchBodyEarliest(resp) ==
    IF resp.k = "neterr" THEN Raised
    ELSE IF resp.status # 200 THEN None
    ELSE IF resp.k = "nojson" THEN Raised
    ELSE IF resp.k = "nokey" \/ Len(resp.obs) = 0 THEN None
    ELSE LET latest == EarliestNonEmpty(resp.obs) IN
         IF latest = 0 THEN None
         ELSE IF resp.obs[latest].k = "bad" THEN Raised
         ELSE Some((resp.obs[latest].v * 10000) \div 100)

\* the body of the try block
FetchBody(resp) ==
    IF resp.k = "neterr" THEN Raised
    ELSE IF resp.status # 200 THEN None
    ELSE IF resp.k = "nojson" THEN Raised
    ELSE IF resp.k = "nokey" \/ Len(resp.obs) = 0 THEN None
    ELSE LET latest == Latest(resp.obs) IN
         IF latest = 0 THEN None
         ELSE IF resp.obs[latest].k = "bad" THEN Raised          \* float() raises
         ELSE Some((resp.obs[latest].v * 10000) \div 100)        \* float(value) / 100

\* try: ... except Exception: return None
fetch_t_bill_yield(resp) ==
    LET r == FetchBody(resp) IN IF r.k = "raise" THEN None ELSE r

\* variant of ResolveRf: `if not annual_rf` in place of `is None`
ResolveRfTruthy(f) == IF f.ok /\ f.val # 0 THEN f.val ELSE FallbackRate

\* if annual_rf is None: annual_rf = 0.02
ResolveRf(f) == IF ~f.ok THEN FallbackRate ELSE f.val

----------------------------------------------------------------------------
(* The price source: yf.download *)

PriceValues == {Fin(1), Fin(2), Fin(4), NaN, Inf}

SmallPriceValues == {Fin(1), Fin(2)}

ScenarioPrices ==
    << Fin(100), Fin(101), Fin(102), Fin(101), Fin(100),
       Fin(99), Fin(100), Fin(101), Fin(102), Fin(103) >>

Frames ==
    UNION {[1..n -> PriceValues] : n \in 0..MaxLen} \cup {ScenarioPrices}

SmallFrames == UNION {[1..n -> SmallPriceValues] : n \in 0..TwoMaxLen}

Windows == (-1)..MaxWindow

SmallWindows == (-1)..2

----------------------------------------------------------------------------
(* The computation: pct_change, rolling(window_days).mean()/.std(), Sharpe *)

NaNRet == [k |-> "nan", n |-> 0, d |-> 1]
InfRet == [k |-> "inf", n |-> 0, d |-> 1]

\* fill_method='pad': a missing price takes the last price before it
Ffill(p) ==
    LET f[i \in 1..Len(p)] ==
            IF p[i].k = "nan" /\ i > 1 THEN f[i - 1] ELSE p[i]
    IN  [i \in 1..Len(p) |-> f[i]]

\* a / b - 1 in floating point, for prices a and b
Change(a, b) ==
    IF a.k = "nan" \/ b.k = "nan" THEN NaNRet
    ELSE IF a.k = "inf" /\ b.k = "inf" THEN NaNRet
    ELSE IF a.k = "inf" THEN InfRet
    ELSE IF b.k = "inf" THEN [k |-> "fin", n |-> 0, d |-> 1]
    ELSE [k |-> "fin", n |-> a.v, d |-> b.v]

\* variant of PctChange: the first return filled with 0
PctChangeZeroFirst(p, pad) ==
    LET q == IF pad THEN Ffill(p) ELSE p
    IN  [i \in 1..Len(p) |->
            IF i = 1 THEN [k |-> "fin", n |-> 1, d |-> 1]
            ELSE Change(q[i], q[i - 1])]

\* data[price_col].pct_change()
PctChange(p, pad) ==
    LET q == IF pad THEN Ffill(p) ELSE p
    IN  [i \in 1..Len(p) |-> IF i = 1 THEN NaNRet ELSE Change(q[i], q[i - 1])]

\* the rows of the trailing window ending at row i
WindowRows(i, w) == Max(1, i - w + 1)..i

\* observations of the window that count: rolling() reads an infinite value as
\* missing
Nobs(rets, i, w) == Cardinality({j \in WindowRows(i, w) : rets[j].k = "fin"})

SameReturn(r, s) == r.n * s.d = s.n * r.d

\* variant of MinPeriods: min_periods=1
MinPeriodsOne(w) == IF w > 0 THEN 1 ELSE 0

\* rolling(window): min_periods defaults to the window
MinPeriods(w) == w

\* .rolling(window_days).mean() at row i
RollingMean(rets, i, w) ==
    LET nobs == Nobs(rets, i, w)
    IN  IF nobs >= MinPeriods(w) /\ nobs > 0 THEN "fin" ELSE "nan"

\* .rolling(window_days).std() at row i: the sample deviation (ddof = 1)
RollingStd(rets, i, w) ==
    LET nobs == Nobs(rets, i, w)
        obs == {j \in WindowRows(i, w) : rets[j].k = "fin"}
    IN  IF nobs >= MinPeriods(w) /\ nobs > 1
        THEN IF \A j \in obs : SameReturn(rets[j], rets[i]) THEN "zero" ELSE "pos"
        ELSE "nan"

\* the sign of (mean - daily_rf) for a window of equal returns r, where
\* daily_rf = (1 + annual_rf) ** (1/252) - 1 and annual_rf >= 0: the mean is r.
\* A negative return is below daily_rf; a zero return equals it only for
\* annual_rf = 0; a positive return n/d - 1 is at least 1/d, above the daily
\* rate of every annual rate up to 252/d.
ExcessSign(r, rf) ==
    IF r.n < r.d THEN -1
    ELSE IF r.n = r.d THEN (IF rf = 0 THEN 0 ELSE -1)
    ELSE 1

\* (mean - daily_rf) / std * sqrt(252): x/0 is an infinity, 0/0 is not a number
Sharpe(mean, std, r, rf) ==
    IF mean = "nan" \/ std = "nan" THEN "nan"
    ELSE IF std = "zero"
         THEN LET s == ExcessSign(r, rf) IN
              IF s = 0 THEN "nan" ELSE IF s < 0 THEN "neginf" ELSE "posinf"
         ELSE "fin"

\* the frame after lines 58-67: one row per price, with the computed columns
Columns(prices, w, rf, pad) ==
    LET rets == PctChange(prices, pad)
    IN  [i \in 1..Len(prices) |->
            LET mean == RollingMean(rets, i, w)
                std == RollingStd(rets, i, w)
            IN  [idx |-> i, price |-> prices[i], ret |-> rets[i],
                 mean |-> mean, std |-> std,
                 sharpe |-> Sharpe(mean, std, rets[i], rf)]]

\* variant of NotNa: an infinity counts as missing
NotNaInfAsNa(x) == x = "fin"

\* Series.notna(): an infinity is not missing
NotNa(x) == x # "nan"

\* data[data['Rolling Sharpe'].notna()]
Filter(frame) == SelectSeq(frame, LAMBDA row : NotNa(row.sharpe))

Pending == [kind |-> "pending", rows |-> << >>]

\* variant of Compute: the window grows with every call made before
ComputeCounting(prices, w, rf, pad) ==
    IF Len(prices) = 0 THEN [kind |-> "None", rows |-> << >>]
    ELSE IF w < 0 THEN [kind |-> "raise", rows |-> << >>]
    ELSE [kind |-> "frame",
          rows |-> Filter(Columns(prices, w + Len(calls), rf, pad))]

\* lines 50-69 on the downloaded prices: None for an empty frame; rolling()
\* raises ValueError for a negative window; else the filtered frame
Compute(prices, w, rf, pad) ==
    IF Len(prices) = 0 THEN [kind |-> "None", rows |-> << >>]
    ELSE IF w < 0 THEN [kind |-> "raise", rows |-> << >>]
    ELSE [kind |-> "frame", rows |-> Filter(Columns(prices, w, rf, pad))]

\* the frame `data` as the function leaves it: with a negative window only
\* the return column is filled before rolling() raises
DataAfter(prices, w, rf, pad) ==
    IF Len(prices) = 0 \/ w < 0
    THEN [i \in 1..Len(prices) |->
            [idx |-> i, price |-> prices[i], ret |-> PctChange(prices, pad)[i],
             mean |-> "nan", std |-> "nan", sharpe |-> "nan"]]
    ELSE Columns(prices, w, rf, pad)

----------------------------------------------------------------------------
(* display_results *)

NoDisplay == [status |-> "none", shown |-> 0]

\* None is skipped; .tail(10) is printed; .iloc[-1] raises IndexError on an
\* empty frame
Display(res) ==
    IF res.kind = "None" THEN [status |-> "skipped", shown |-> 0]
    ELSE IF Len(res.rows) = 0 THEN [status |-> "raised", shown |-> 0]
    ELSE [status |-> "printed",
          shown |-> IF Len(res.rows) > TailRows THEN TailRows ELSE Len(res.rows)]

----------------------------------------------------------------------------
(* The state machine *)

InitWith(n) ==
    /\ pc = "start"
    /\ runs = n
    /\ pad_fill \in BOOLEAN
    /\ window_days = 0
    /\ api_key = FALSE
    /\ response = NoResponse
    /\ fetched = None
    /\ annual_rf = None
    /\ data = << >>
    /\ result = Pending
    /\ display = NoDisplay
    /\ calls = << >>

Init == InitWith(1)

InitTwice == InitWith(2)

\* a caller invokes calculate_rolling_sharpe(ticker, window_days, api_key)
Call(w, key) ==
    /\ pc \in {"start", "done", "crashed"}
    /\ Len(calls) < runs
    /\ pc' = "rate"
    /\ window_days' = w
    /\ api_key' = key
    /\ response' = NoResponse
    /\ fetched' = None
    /\ annual_rf' = None
    /\ data' = << >>
    /\ result' = Pending
    /\ display' = NoDisplay
    /\ UNCHANGED << runs, pad_fill, calls >>

\* line 40 with a key: fetch_t_bill_yield(api_key)
FetchTBillYield(resp) ==
    /\ pc = "rate"
    /\ api_key
    /\ response' = resp
    /\ fetched' = fetch_t_bill_yield(resp)
    /\ pc' = IF fetched'.k = "raise" THEN "crashed" ELSE "fetched"
    /\ UNCHANGED << runs, pad_fill, window_days, api_key, annual_rf, data,
                    result, display, calls >>

\* line 40 without a key: None
NoApiKey ==
    /\ pc = "rate"
    /\ ~api_key
    /\ fetched' = None
    /\ pc' = "fetched"
    /\ UNCHANGED << runs, pad_fill, window_days, api_key, response, annual_rf,
                    data, result, display, calls >>

\* lines 41-43
ResolveRate ==
    /\ pc = "fetched"
    /\ annual_rf' = Some(ResolveRf(fetched))
    /\ pc' = "rated"
    /\ UNCHANGED << runs, pad_fill, window_days, api_key, response, fetched,
                    data, result, display, calls >>

\* lines 46-47: the date range asked of the price source ends now and starts
\* three calendar days per window day earlier; the rate request is over
DateRange ==
    /\ pc = "rated"
    /\ response' = NoResponse
    /\ pc' = "dated"
    /\ UNCHANGED << runs, pad_fill, window_days, api_key, fetched, annual_rf,
                    data, result, display, calls >>

\* lines 48-69: the price source answers with `prices`; the rest is computed
Download(prices) ==
    /\ pc = "dated"
    /\ result' = Compute(prices, window_days, annual_rf.val, pad_fill)
    /\ data' = DataAfter(prices, window_days, annual_rf.val, pad_fill)
    /\ calls' = Append(calls, [window_days |-> window_days, api_key |-> api_key,
                               prices |-> prices, annual_rf |-> annual_rf.val,
                               result |-> result'])
    /\ pc' = IF result'.kind = "raise" THEN "crashed" ELSE "returned"
    /\ UNCHANGED << runs, pad_fill, window_days, api_key, response, fetched,
                    annual_rf, display >>

\* line 129: df is None
MainNone ==
    /\ pc = "returned"
    /\ result.kind = "None"
    /\ pc' = "done"
    /\ UNCHANGED << runs, pad_fill, window_days, api_key, response, fetched,
                    annual_rf, data, result, display, calls >>

\* line 130
DisplayResults ==
    /\ pc = "returned"
    /\ result.kind = "frame"
    /\ display' = Display(result)
    /\ pc' = IF display'.status = "raised" THEN "crashed" ELSE "displayed"
    /\ UNCHANGED << runs, pad_fill, window_days, api_key, response, fetched,
                    annual_rf, data, result, calls >>

\* line 131
PlotResults ==
    /\ pc = "displayed"
    /\ pc' = "done"
    /\ UNCHANGED << runs, pad_fill, window_days, api_key, response, fetched,
                    annual_rf, data, result, display, calls >>

\* what the callers and the two services may supply: the full sets in a
\* session of one call, the small ones in a session of two
Arguments == IF runs = 1 THEN Windows ELSE SmallWindows

RateSource == IF runs = 1 THEN Responses ELSE SmallResponses

PriceSource == IF runs = 1 THEN Frames ELSE SmallFrames

Next ==
    \/ \E w \in Arguments, key \in BOOLEAN : Call(w, key)
    \/ \E resp \in RateSource : FetchTBillYield(resp)
    \/ NoApiKey
    \/ ResolveRate
    \/ DateRange
    \/ \E prices \in PriceSource : Download(prices)
    \/ MainNone
    \/ DisplayResults
    \/ PlotResults

Spec == Init /\ [][Next]_vars

SpecTwice == InitTwice /\ [][Next]_vars

----------------------------------------------------------------------------
(* Vocabulary of the properties *)

Finished == result.kind # "pending"

Prices == [i \in 1..Len(data) |-> data[i].price]

NRows == Len(data)

Valid == \A i \in 1..NRows : data[i].price.k = "fin"

RowCount == Len(result.rows)

InOutput(i) == \E j \in 1..Len(result.rows) : result.rows[j].idx = i

NoZeroStd == \A i \in 1..NRows : data[i].std # "zero"

\* rows left out of the output whose window has zero standard deviation
ZeroStdExcluded ==
    Cardinality({i \in 1..NRows : data[i].std = "zero" /\ ~InOutput(i)})

\* rows whose window has zero standard deviation and a mean equal to daily_rf
ZeroStdUndefined ==
    Cardinality({i \in 1..NRows : data[i].std = "zero" /\ data[i].sharpe = "nan"})

IsScenario ==
    /\ Prices = ScenarioPrices
    /\ window_days = 3
    /\ annual_rf.val = 200

\* the service supplies a rate: a 200 answer whose last observation that is
\* not '.' is a number
Usable(resp) ==
    /\ resp.k = "obs"
    /\ resp.status = 200
    /\ \E i \in 1..Len(resp.obs) :
          /\ resp.obs[i].k = "num"
          /\ \A j \in (i + 1)..Len(resp.obs) : resp.obs[j] = Dot

SuppliedRate(resp) ==
    LET i == CHOOSE i \in 1..Len(resp.obs) :
                 /\ resp.obs[i] # Dot
                 /\ \A j \in (i + 1)..Len(resp.obs) : resp.obs[j] = Dot
    IN  resp.obs[i].v * 100

----------------------------------------------------------------------------
(* C1 *)

\* C1 as stated: for valid prices of length n and a window w >= 1 the output
\* has max(0, n - w - 1) rows less those excluded for zero standard deviation,
\* and the scenario of ten prices with w = 3 and annual_rf = 0.02 has 6 rows.
C1_RowsAsStated ==
    (Finished /\ result.kind # "raise" /\ Valid /\ window_days >= 1)
        => /\ RowCount = Max(0, NRows - window_days - 1) - ZeroStdExcluded
           /\ IsScenario => RowCount = 6

\* C1 amended: for valid prices of length n and a window w >= 2 the output has
\* max(0, n - w) rows less the rows whose window has zero standard deviation
\* and a mean equal to daily_rf (the zero-deviation rows the filter drops), and
\* the scenario has 7 rows.
C1_RowCount ==
    (Finished /\ result.kind # "raise" /\ Valid /\ window_days >= 2)
        => /\ RowCount = Max(0, NRows - window_days) - ZeroStdUndefined
           /\ ZeroStdUndefined = ZeroStdExcluded
           /\ IsScenario => RowCount = 7

\* C1 witness: the scenario has been computed and returned 7 rows.
C1_Witness ==
    /\ pc = "returned"
    /\ IsScenario
    /\ RowCount = 7

----------------------------------------------------------------------------
(* C2 *)

\* C2 as stated: for valid prices of length n >= w (w >= 1) with no window of
\* zero standard deviation, the output has n - w rows: exactly the rows whose
\* trailing window of w returns is full.
C2_LengthAsStated ==
    (result.kind = "frame" /\ Valid /\ window_days >= 1
       /\ NRows >= window_days /\ NoZeroStd)
        => /\ RowCount = NRows - window_days
           /\ \A i \in 1..NRows : InOutput(i) <=> i > window_days

\* C2 amended: the same for w >= 2 (with w = 1 the sample deviation of one
\* return is undefined and every row is dropped).
C2_FullWindows ==
    (result.kind = "frame" /\ Valid /\ window_days >= 2
       /\ NRows >= window_days /\ NoZeroStd)
        => /\ RowCount = NRows - window_days
           /\ \A i \in 1..NRows : InOutput(i) <=> i > window_days

\* C2 witness: a frame longer than the window, no zero deviation, and the rows
\* after the first w returned.
C2_Witness ==
    /\ pc = "returned"
    /\ result.kind = "frame"
    /\ Valid
    /\ window_days >= 2
    /\ NRows > window_days
    /\ NoZeroStd
    /\ RowCount = NRows - window_days
    /\ ~InOutput(window_days)

----------------------------------------------------------------------------
(* C3 *)

\* C3 as stated: a row whose window has zero standard deviation is dropped, no
\* returned row has an infinite or not-a-number Sharpe value, and constant
\* prices give an empty output for every rate.
C3_ZeroStdDropped ==
    (result.kind = "frame" /\ Valid)
        => /\ \A i \in 1..NRows : data[i].std = "zero" => ~InOutput(i)
           /\ \A j \in 1..RowCount : result.rows[j].sharpe = "fin"
           /\ (\A i \in 1..NRows : data[i].price = data[1].price)
                 => result.rows = << >>

----------------------------------------------------------------------------
(* C4 *)

\* C4: with fewer than window_days + 1 prices the computation ends without an
\* exception and with no row (None for no prices, else an empty frame).
C4_InsufficientData ==
    (Finished /\ NRows < window_days + 1)
        => /\ result.kind \in {"None", "frame"}
           /\ result.rows = << >>
           /\ result.kind = "None" <=> NRows = 0

\* C4 witness: some prices, too few for one window, returned an empty frame.
C4_Witness ==
    /\ pc = "returned"
    /\ NRows >= 1
    /\ NRows < window_days + 1
    /\ result.kind = "frame"
    /\ result.rows = << >>

----------------------------------------------------------------------------
(* C5 *)

\* C5: once the rate is resolved, the rate used is the supplied rate when a key
\* is given and the service supplies one (a rate of 0 included), and else the
\* fallback 0.02.
C5_RateUsed ==
    (pc = "rated" /\ annual_rf.ok)
        => annual_rf.val = IF api_key /\ Usable(response)
                           THEN SuppliedRate(response)
                           ELSE FallbackRate

\* C5 witness: the service supplied a rate of 0 and it is the rate in use.
C5_Witness ==
    /\ pc = "rated"
    /\ api_key
    /\ Usable(response)
    /\ SuppliedRate(response) = 0
    /\ annual_rf = Some(0)

----------------------------------------------------------------------------
(* C6 *)

----------------------------------------------------------------------------
(* C7 *)

\* C7 as stated: a call with a negative window_days ends in an exception,
\* whatever prices are supplied.
C7_NegativeWindowFails ==
    (Finished /\ window_days < 0) => result.kind = "raise"

----------------------------------------------------------------------------
(* C8 *)

\* C8 as stated: for a missing or non-finite price at row k the returns at k
\* and k + 1 are undefined, and no output row has k or k + 1 in its window.
C8_MissingPriceExcluded ==
    (result.kind = "frame" /\ window_days >= 1)
        => \A k \in 1..NRows :
              data[k].price.k # "fin"
                  => /\ data[k].ret.k # "fin"
                     /\ k + 1 <= NRows => data[k + 1].ret.k # "fin"
                     /\ \A i \in 1..NRows :
                           (InOutput(i) /\ i - window_days + 1 >= 1)
                               => /\ k \notin WindowRows(i, window_days)
                                  /\ (k + 1) \notin WindowRows(i, window_days)

----------------------------------------------------------------------------
(* C9 *)

\* C9: fetch_t_bill_yield returns, never raises; it returns None or the last
\* observation that is not '.', divided by 100; it returns None for a status
\* other than 200, for no observations and for observations that are all '.'.
C9_FetchResult ==
    (api_key /\ response # NoResponse)
        => /\ fetched.k = "return"
           /\ fetched = None
                \/ (Usable(response) /\ fetched = Some(SuppliedRate(response)))
           /\ (response.status # 200 \/ response.obs = << >>
                 \/ \A i \in 1..Len(response.obs) : response.obs[i] = Dot)
                 => fetched = None

\* C9 witness: an older observation of 5 percent followed by an empty one was
\* fetched as 0.05.
C9_Witness ==
    /\ pc = "fetched"
    /\ api_key
    /\ response.obs = << Num(5), Dot >>
    /\ fetched = Some(500)

----------------------------------------------------------------------------
(* C10 *)

\* C10 as stated: whenever calculate_rolling_sharpe returned a frame,
\* display_results does not raise, an empty frame included.
C10_DisplayCompletes ==
    result.kind = "frame" => display.status # "raised"

=============================================================================
